---- MODULE Spec2Model ----
(***************************************************************************)
(* Model of the URL-expansion and bulk/concurrent processing pipeline of   *)
(* Social-Media-Video-Transcriber:                                         *)
(*   social_media_transcriber/utils/processing.py   (process_urls)         *)
(*   social_media_transcriber/utils/bulk_processor.py (BulkProcessor)      *)
(*   social_media_transcriber/utils/file_utils.py                          *)
(*   social_media_transcriber/core/providers/base.py                       *)
(*   social_media_transcriber/core/transcriber.py                          *)
(* Strings that the code inspects character by character (titles, folder   *)
(* names, file stems) are sequences of one-character strings.              *)
(***************************************************************************)
EXTENDS Integers, Sequences, FiniteSets, TLC

(***************************************************************************)
(* Bounds of the model.                                                    *)
(***************************************************************************)
\* longest input URL list handed to process_urls
MaxUrls == 2
\* largest worker count of the thread pool that is explored
MaxWorkers == 2
\* longest expanded Job list that is explored
MaxJobs == 4
\* largest number of lines of the bulk file
MaxLines == 2

(***************************************************************************)
(* file_utils.sanitize_folder_name                                         *)
(***************************************************************************)
\* default of the max_length parameter
DefaultMaxLength == 100

\* the characters removed by the first re.sub
ForbiddenChars == {"<", ">", ":", "\"", "/", "\\", "|", "?", "*"}

\* \w restricted to the characters that occur in the model's names
WordChars ==
  {"a", "b", "c", "d", "e", "k", "n", "o", "r", "s", "t", "u", "w", "_"}

\* \s
SpaceChars == {" ", "\t", "\n"}

\* the characters kept by the second re.sub
SafeChars == WordChars \cup SpaceChars
               \cup {"-", "_", ".", ",", "(", ")", "[", "]", "{", "}"}

RECURSIVE CollapseSpaces(_)
\* re.sub(r'\s+', ' ', s)
CollapseSpaces(s) ==
  IF s = << >> THEN << >>
  ELSE IF Head(s) \in SpaceChars
       THEN IF Len(s) > 1 /\ s[2] \in SpaceChars
            THEN CollapseSpaces(Tail(s))
            ELSE << " " >> \o CollapseSpaces(Tail(s))
       ELSE << Head(s) >> \o CollapseSpaces(Tail(s))

RECURSIVE LStrip(_)
LStrip(s) ==
  IF s # << >> /\ Head(s) \in SpaceChars THEN LStrip(Tail(s)) ELSE s

RECURSIVE RStrip(_)
RStrip(s) ==
  IF s # << >> /\ s[Len(s)] \in SpaceChars
  THEN RStrip(SubSeq(s, 1, Len(s) - 1)) ELSE s

\* str.strip()
Strip(s) == RStrip(LStrip(s))

\* s.rsplit(' ', 1)[0]
RSplitFirst(s) ==
  LET spaces == {i \in 1..Len(s) : s[i] = " "}
  IN  IF spaces = {} THEN s
      ELSE SubSeq(s, 1, (CHOOSE i \in spaces : \A k \in spaces : k <= i) - 1)

UnknownName == <<"u", "n", "k", "n", "o", "w", "n">>

sanitize_folder_name(name, max_length) ==
  LET s1 == SelectSeq(name, LAMBDA c : c \notin ForbiddenChars)
      s2 == SelectSeq(s1, LAMBDA c : c \in SafeChars)
      s3 == CollapseSpaces(s2)
      s4 == Strip(s3)
      s5 == IF Len(s4) > max_length
            THEN RSplitFirst(SubSeq(s4, 1, max_length)) ELSE s4
  IN  IF s5 = << >> THEN UnknownName ELSE s5

(***************************************************************************)
(* The platform: what the providers and yt-dlp answer for each URL.        *)
(* URLs are opaque; the providers' regular expressions classify them.      *)
(***************************************************************************)
Videos == {"v1", "v2"}
Aggregates == {"chan", "pl", "emptypl", "badpl", "prof", "feed"}
Urls == Videos \cup Aggregates \cup {"unk", "nop"}

\* Downloader.get_provider: the first provider whose pattern matches
get_provider(url) == IF url = "nop" THEN "none" ELSE "provider"

\* VideoProvider.get_content_type
get_content_type(url) ==
  CASE url \in Videos -> "video"
    [] url \in {"chan", "feed"} -> "channel"
    [] url \in {"pl", "emptypl", "badpl"} -> "playlist"
    [] url = "prof" -> "profile"
    [] OTHER -> "unknown"

\* the default of max_videos for a YouTube channel
YouTubeChannelCap == 10

\* the default of max_videos for a TikTok profile
TikTokProfileCap == 20

\* entry.get("webpage_url") or entry.get("url") of each metadata entry;
\* "" stands for an entry that has neither field; "feed" is a channel that
\* lists one video more than the channel cap
Entries(url) ==
  CASE url = "chan" -> <<"pl", "v2", "emptypl", "badpl">>
    [] url = "pl" -> <<"v1", "", "unk", "v2", "nop">>
    [] url = "prof" -> <<"v2", "v1", "v1">>
    [] url = "feed" -> [i \in 1..(YouTubeChannelCap + 1) |-> "v1"]
    [] OTHER -> << >>

\* get_metadata raises for this aggregate
MetadataFails(url) == url = "badpl"

\* metadata.get("title", ...)
Title(url) ==
  CASE url = "v1" -> <<"a">>
    [] url = "v2" -> <<"a", "?">>
    [] url = "chan" -> <<"c", ":", " ", "d">>
    [] url = "pl" -> <<"e", " ", " ", "#">>
    [] url = "prof" -> <<"b", "/", "w">>
    [] url = "feed" -> <<"d">>
    [] OTHER -> << >>

(***************************************************************************)
(* processing._expand_url                                                  *)
(***************************************************************************)
RECURSIVE expand_url(_, _)
RECURSIVE expand_entries(_, _)

\* the entries are taken last to first
expand_entries_mut(entries, new_context) ==
  IF entries = << >> THEN << >>
  ELSE expand_entries(Tail(entries), new_context)
       \o (IF Head(entries) # ""
           THEN expand_url(Head(entries), new_context) ELSE << >>)

expand_entries(entries, new_context) ==
  IF entries = << >> THEN << >>
  ELSE (IF Head(entries) # ""
        THEN expand_url(Head(entries), new_context) ELSE << >>)
       \o expand_entries(Tail(entries), new_context)

\* the content type is not looked at: whatever has a provider and is not an
\* aggregate becomes a task
expand_url_mut(url, context) ==
  IF get_provider(url) = "none" THEN << >>
  ELSE LET content_type == get_content_type(url) IN
    IF content_type \in {"channel", "playlist", "profile"}
    THEN IF MetadataFails(url) THEN << >>
         ELSE LET name == sanitize_folder_name(Title(url), DefaultMaxLength)
              IN  expand_entries(Entries(url), Append(context, name))
    ELSE << [url |-> url, context |-> context] >>

expand_url(url, context) ==
  IF get_provider(url) = "none" THEN << >>
  ELSE LET content_type == get_content_type(url) IN
    IF content_type = "unknown" THEN << >>
    ELSE IF content_type \in {"channel", "playlist", "profile"}
    THEN IF MetadataFails(url) THEN << >>
         ELSE LET name == sanitize_folder_name(Title(url), DefaultMaxLength)
              IN  expand_entries(Entries(url), Append(context, name))
    ELSE IF content_type = "video"
    THEN << [url |-> url, context |-> context] >>
    ELSE << >>

RECURSIVE ExpandAll(_)
\* the loop ends at the first URL that yields nothing
ExpandAll_mut(urls) ==
  IF urls = << >> THEN << >>
  ELSE LET first == expand_url(Head(urls), << >>)
       IN  IF first = << >> THEN << >> ELSE first \o ExpandAll(Tail(urls))

\* process_urls: tasks.extend(list(_expand_url(url, downloader, [])))
ExpandAll(urls) ==
  IF urls = << >> THEN << >>
  ELSE expand_url(Head(urls), << >>) \o ExpandAll(Tail(urls))

(***************************************************************************)
(* Files.  A path is a directory (sequence of folder names), a stem and an *)
(* extension; a file system maps each existing path to the Job that wrote  *)
(* it last.                                                                *)
(***************************************************************************)
NoPath == [dir |-> << >>, name |-> << >>, ext |-> "none"]

UnsortedName == <<"u", "n", "s", "o", "r", "t", "e", "d">>

TranscriptSuffix ==
  <<"_", "t", "r", "a", "n", "s", "c", "r", "i", "p", "t">>

Exists(files, p) == \E f \in files : f.path = p

Owner(files, p) == (CHOOSE f \in files : f.path = p).owner

Create(files, p, j) ==
  {f \in files : f.path # p} \cup {[path |-> p, owner |-> j]}

Remove(files, p) == {f \in files : f.path # p}

\* output_path.glob("*.wav")
WavFiles(files, dir) ==
  {f.path : f \in {g \in files : g.path.dir = dir /\ g.path.ext = "wav"}}

\* processing_target_dir / final_output_dir relative to their roots
TargetDir(context_path) ==
  IF context_path # << >> THEN context_path ELSE << UnsortedName >>

TranscriptWord == <<"t", "r", "a", "n", "s", "c", "r", "i", "p", "t">>

\* word in name
Contains(name, word) ==
  \E i \in 1..(Len(name) - Len(word) + 1) :
    SubSeq(name, i, i + Len(word) - 1) = word

RECURSIVE Replace(_, _)
\* name.replace(word, '')
Replace(name, word) ==
  IF Len(name) < Len(word) THEN name
  ELSE IF SubSeq(name, 1, Len(word)) = word
       THEN Replace(SubSeq(name, Len(word) + 1, Len(name)), word)
       ELSE << Head(name) >> \o Replace(Tail(name), word)

\* downloaded_file.suffix == '.txt' and 'transcript' in downloaded_file.name
is_transcript_file(p) == p.ext = "txt" /\ Contains(p.name, TranscriptWord)

(***************************************************************************)
(* What the external tools do for a video.  An outcome names the first     *)
(* step that goes wrong for the video; "any" leaves every step open.       *)
(***************************************************************************)
Outcomes ==
  {"audio", "transcript", "nofile", "mderror", "dlerror", "trfail", "wrfail",
   "enherror"}

\* yt-dlp: audio written, YouTube transcript written, nothing written and
\* no error (ignoreerrors), DownloadError from download_audio, or get_metadata
\* raising RuntimeError (providers/base.py line 203)
DlOutcome(o) ==
  CASE o = "any" -> {"audio", "transcript", "nofile", "error", "mderror"}
    [] o = "mderror" -> {"mderror"}
    [] o \in {"transcript", "wrfail", "enherror"} -> {"transcript"}
    [] o = "nofile" -> {"nofile"}
    [] o = "dlerror" -> {"error"}
    [] OTHER -> {"audio"}

\* parakeet-mlx
TrOutcome(o) ==
  CASE o = "any" -> {"ok", "fail"}
    [] o = "trfail" -> {"fail"}
    [] OTHER -> {"ok"}

\* opening and writing the final file
WrOutcome(o) ==
  CASE o = "any" -> {"ok", "fail"}
    [] o = "wrfail" -> {"fail"}
    [] OTHER -> {"ok"}

\* enhance_transcript_with_llm
EnhOutcome(o) ==
  CASE o = "any" -> {"ok", "error"}
    [] o = "enherror" -> {"error"}
    [] OTHER -> {"ok"}

(***************************************************************************)
(* processing._process_single_url, as three steps of one worker.  Each     *)
(* step maps the Job record and the files to the new Job record, the new   *)
(* files and the uses it made of files written by another Job.             *)
(***************************************************************************)
NewJob(task) ==
  [url |-> task.url, context |-> task.context, st |-> "queued",
   downloaded_file |-> NoPath,
   final_file |-> NoPath, result |-> NoPath, err |-> "", runs |-> 0,
   steps |-> << >>]

Foreign(files, p, j, op) ==
  IF Exists(files, p) /\ Owner(files, p) # j
  THEN {[job |-> j, owner |-> Owner(files, p), op |-> op]} ELSE {}

\* lines 155 and 158-160: an exception of get_metadata is logged and the
\* worker returns None
MetadataFailed(job) ==
  [job EXCEPT !.st = "returned", !.err = "metadata",
              !.steps = SubSeq(@, 1, Len(@) - 1)]

\* lines 157-160: an exception of download_audio is logged and the worker
\* returns None
DownloadFailed_mut(job) ==
  [job EXCEPT !.st = "raised", !.err = "download"]

DownloadFailed(job) ==
  [job EXCEPT !.st = "returned", !.err = "download"]

\* lines 138-160: get_provider, mkdir, get_metadata, download_audio
\* (providers/base.py 208-268, providers/youtube_provider.py 183-213)
DownloadStep(job, j, files, dl, pick) ==
  LET dir == TargetDir(job.context)
      title == sanitize_folder_name(Title(job.url), DefaultMaxLength)
      expected_file == [dir |-> dir, name |-> title, ext |-> "wav"]
      transcript_file ==
        [dir |-> dir, name |-> title \o TranscriptSuffix, ext |-> "txt"]
      \* steps: the steps of the worker the Job has been through, lines 138,
      \* 155 and 157
      started == [job EXCEPT !.runs = @ + 1,
                             !.steps = <<"provider", "metadata", "download">>]
      failed == DownloadFailed(started)
  IN  CASE dl = "mderror" ->
             [job |-> MetadataFailed(started), files |-> files, ev |-> {}]
        [] dl = "error" ->
             [job |-> failed, files |-> files, ev |-> {}]
        [] dl = "transcript" ->
             [job |-> [started EXCEPT !.st = "downloaded",
                                      !.downloaded_file = transcript_file],
              files |-> Create(files, transcript_file, j), ev |-> {}]
        [] dl = "audio" ->
             [job |-> [started EXCEPT !.st = "downloaded",
                                      !.downloaded_file = expected_file],
              files |-> Create(files, expected_file, j), ev |-> {}]
        [] OTHER ->
             IF Exists(files, expected_file)
             THEN [job |-> [started EXCEPT !.st = "downloaded",
                                           !.downloaded_file = expected_file],
                   files |-> files,
                   ev |-> Foreign(files, expected_file, j, "return")]
             ELSE IF pick \in WavFiles(files, dir)
             THEN [job |-> [started EXCEPT !.st = "downloaded",
                                           !.downloaded_file = pick],
                   files |-> files,
                   ev |-> Foreign(files, pick, j, "return")]
             ELSE [job |-> failed, files |-> files, ev |-> {}]

\* the candidates for wav_files[0]
PickSet(job, files) ==
  LET wavs == WavFiles(files, TargetDir(job.context))
  IN  IF wavs = {} THEN {NoPath} ELSE wavs

\* lines 186-187 and AudioTranscriber.transcribe_audio (core/transcriber.py
\* 44-123).  transcribe_audio raises when the audio file is missing or the
\* external tools fail; otherwise it leaves the transcript at output_file and
\* returns that one Path (line 111), which the two-target assignment of
\* line 187 cannot unpack: a TypeError leaves the worker.
TranscribeStep(job, j, files, tr) ==
  LET audio == job.downloaded_file
      processing_transcript_path == [audio EXCEPT !.ext = "txt"]
  IN  IF ~ Exists(files, audio) \/ tr = "fail"
      THEN [job |-> [job EXCEPT !.st = "raised", !.err = "transcribe",
                                !.steps = Append(@, "transcribe")],
            files |-> files, ev |-> {}]
      ELSE [job |-> [job EXCEPT !.st = "raised", !.err = "unpack",
                                !.steps = Append(@, "transcribe")],
            files |-> Create(files, processing_transcript_path, j),
            ev |-> Foreign(files, audio, j, "transcribe")]

\* the deletion comes before the write
FinishSteps_mut(enhance_enabled) ==
  (IF enhance_enabled THEN <<"enhance">> ELSE << >>)
    \o <<"delete", "write", "return">>

\* the steps of lines 200-261 in the order of the code: enhancement (lines
\* 200-239), the write of the final file (225-243), the deletion of the
\* downloaded file (245-259), the return (261)
FinishSteps(enhance_enabled) ==
  (IF enhance_enabled THEN <<"enhance">> ELSE << >>)
    \o <<"write", "delete", "return">>

\* the stem of the final file: lines 178-180 and 195-197
FinalStem(p) ==
  IF is_transcript_file(p) THEN Replace(p.name, TranscriptSuffix) ELSE p.name

\* lines 167-180 and 199-261, the branch of an extracted transcript file (the
\* audio branch ends at line 187): read it, enhance, write the final file,
\* delete the downloaded file, return the final file.  A failed enhancement
\* is logged and the raw text is written (lines 240-243).
FinishStep(job, j, files, enhance, enh, wr) ==
  LET source == job.downloaded_file
      final_file == [dir |-> TargetDir(job.context),
                     name |-> FinalStem(job.downloaded_file),
                     ext |-> IF enhance THEN "mdx" ELSE "txt"]
  IN  IF ~ Exists(files, source)
      THEN [job |-> [job EXCEPT !.st = "raised", !.err = "read"],
            files |-> files, ev |-> {}, wrote |-> NoPath]
      ELSE IF wr = "fail"
      THEN [job |-> [job EXCEPT !.st = "raised", !.err = "write",
                                !.steps = @ \o (IF enhance THEN <<"enhance">>
                                                ELSE << >>)],
            files |-> files, ev |-> Foreign(files, source, j, "read"),
            wrote |-> NoPath]
      ELSE [job |-> [job EXCEPT !.st = "returned", !.final_file = final_file,
                                !.result = final_file,
                                !.err = IF enhance /\ enh = "error"
                                        THEN "enhance" ELSE "",
                                !.steps = @ \o FinishSteps(enhance)],
            files |-> Remove(files, job.downloaded_file),
            ev |-> Foreign(files, source, j, "read")
                     \cup Foreign(files, job.downloaded_file, j, "delete"),
            wrote |-> final_file]

(***************************************************************************)
(* State.                                                                  *)
(***************************************************************************)
VARIABLES
  urls,         \* process_urls: the input URL list
  outcome,      \* what the external tools do for each video
  max_workers,  \* size of the thread pool
  enhance,      \* enhance_transcript and settings.llm_api_key
  pc,           \* position of the main thread of process_urls
  tasks,        \* process_urls: the expanded (url, context) list
  jobs,         \* the futures submitted so far, in submission order
  files,        \* the processing directory
  outputs,      \* the final output directory
  results,      \* process_urls: the results dict
  collected,    \* futures already yielded by as_completed
  progress,     \* progress_bar completed count
  foreign,      \* uses of a file written by another Job
  bulk_file,    \* the lines of the bulk file on disk
  file0,        \* the lines of the bulk file when the run started
  b_method,     \* which BulkProcessor method runs
  b_pc,         \* position of the main thread of the bulk method
  b_urls,       \* BulkProcessor: urls, as loaded
  expanded_data,  \* BulkProcessor: the expanded video list
  b_jobs,       \* state of each expanded video's processing
  successful_urls,
  failed_urls,
  remaining_original_urls,  \* the list handed to save_urls_to_file
  written,      \* save_urls_to_file: lines written so far
  save_calls,   \* number of calls of save_urls_to_file
  progress_calls,  \* the calls of progress_callback made so far
  file_exists,  \* the bulk file exists on disk
  dirs_created, \* number of output directories the bulk method created
  provider,     \* the fields of the one provider instance of the Downloader
  threads,      \* the provider call each pool thread is in
  shared_writes, \* writes of pool threads to the provider instance
  call,         \* a function of the program called on its own, with its
                \* arguments
  ret           \* what that call returned

urlsVars == <<urls, outcome, enhance, pc, tasks, jobs, files, outputs,
              results, collected, progress, foreign>>

bulkVars == <<bulk_file, file0, b_method, b_pc, b_urls, expanded_data, b_jobs,
              successful_urls, failed_urls, remaining_original_urls, written,
              save_calls, progress_calls, file_exists, dirs_created>>

provVars == <<provider, threads, shared_writes>>

pureVars == <<call, ret>>

auxVars == <<provVars, pureVars>>

vars == <<urlsVars, bulkVars, max_workers, auxVars>>

\* no function is called on its own
PureIdle ==
  /\ call = [fn |-> "none", st |-> "none"]
  /\ ret = << >>

\* no provider call is modelled
ProvIdle ==
  /\ provider = [idx |-> 0, extract |-> "none", download |-> "none",
                 zen_profile |-> FALSE]
  /\ threads = << >>
  /\ shared_writes = {}

\* the URLs given on the command line or in the file
TopUrls == {"v1", "pl", "chan", "nop"}

UrlLists == UNION {[1..n -> TopUrls] : n \in 1..MaxUrls}

VideosOf(ts) == {ts[i].url : i \in 1..Len(ts)}

\* a dict as a function on its keys
EmptyDict == [u \in {} |-> NoPath]

DictSet(d, k, v) == [u \in DOMAIN d \cup {k} |-> IF u = k THEN v ELSE d[u]]

\* the bulk method is not running
BulkIdle ==
  /\ bulk_file = << >>
  /\ file0 = << >>
  /\ b_method = "none"
  /\ b_pc = "off"
  /\ b_urls = << >>
  /\ expanded_data = << >>
  /\ b_jobs = << >>
  /\ successful_urls = << >>
  /\ failed_urls = << >>
  /\ remaining_original_urls = << >>
  /\ written = 0
  /\ save_calls = 0
  /\ progress_calls = << >>
  /\ file_exists = FALSE
  /\ dirs_created = 0

InitUrls ==
  /\ urls \in {l \in UrlLists : Len(ExpandAll(l)) <= MaxJobs}
  /\ outcome \in {f \in [Videos -> Outcomes] :
                    \A v \in Videos \ VideosOf(ExpandAll(urls)) : f[v] = "audio"}
  /\ max_workers \in 1..MaxWorkers
  /\ enhance \in BOOLEAN
  /\ pc = "expand"
  /\ tasks = << >>
  /\ jobs = << >>
  /\ files = {}
  /\ outputs = {}
  /\ results = EmptyDict
  /\ collected = {}
  /\ progress = 0
  /\ foreign = {}
  /\ BulkIdle
  /\ ProvIdle
  /\ PureIdle

\* process_urls lines 72-82
Expand ==
  /\ pc = "expand"
  /\ tasks' = ExpandAll(urls)
  /\ pc' = IF tasks' = << >> THEN "done" ELSE "submit"
  /\ UNCHANGED <<urls, outcome, max_workers, enhance, jobs, files, outputs,
                 results, collected, progress, foreign, bulkVars, auxVars>>

\* process_urls lines 98-110: one executor.submit of the dict comprehension
Submit ==
  /\ pc = "submit"
  /\ jobs' = Append(jobs, NewJob(tasks[Len(jobs) + 1]))
  /\ pc' = IF Len(jobs') = Len(tasks) THEN "collect" ELSE "submit"
  /\ UNCHANGED <<urls, outcome, max_workers, enhance, tasks, files, outputs,
                 results, collected, progress, foreign, bulkVars, auxVars>>

Running(j) == jobs[j].st = "downloaded"

Finished(j) == jobs[j].st \in {"returned", "raised"}

\* a pool thread takes the oldest queued future and runs the worker up to
\* the return of download_audio
Download(j) ==
  /\ jobs[j].st = "queued"
  /\ \A k \in 1..(j - 1) : jobs[k].st # "queued"
  /\ Cardinality({k \in 1..Len(jobs) : Running(k)}) < max_workers
  /\ \E dl \in DlOutcome(outcome[jobs[j].url]) :
     \E pick \in PickSet(jobs[j], files) :
       LET r == DownloadStep(jobs[j], j, files, dl, pick)
       IN  /\ jobs' = [jobs EXCEPT ![j] = r.job]
           /\ files' = r.files
           /\ foreign' = foreign \cup r.ev
  /\ UNCHANGED <<urls, outcome, max_workers, enhance, pc, tasks, outputs,
                 results, collected, progress, bulkVars, auxVars>>

Transcribe(j) ==
  /\ jobs[j].st = "downloaded"
  /\ ~ is_transcript_file(jobs[j].downloaded_file)
  /\ \E tr \in TrOutcome(outcome[jobs[j].url]) :
       LET r == TranscribeStep(jobs[j], j, files, tr)
       IN  /\ jobs' = [jobs EXCEPT ![j] = r.job]
           /\ files' = r.files
           /\ foreign' = foreign \cup r.ev
  /\ UNCHANGED <<urls, outcome, max_workers, enhance, pc, tasks, outputs,
                 results, collected, progress, bulkVars, auxVars>>

Finish(j) ==
  /\ jobs[j].st = "downloaded"
  /\ is_transcript_file(jobs[j].downloaded_file)
  /\ \E enh \in EnhOutcome(outcome[jobs[j].url]) :
     \E wr \in WrOutcome(outcome[jobs[j].url]) :
       LET r == FinishStep(jobs[j], j, files, enhance, enh, wr)
       IN  /\ jobs' = [jobs EXCEPT ![j] = r.job]
           /\ files' = r.files
           /\ foreign' = foreign \cup r.ev
           /\ outputs' = IF r.wrote = NoPath THEN outputs
                         ELSE Create(outputs, r.wrote, j)
  /\ UNCHANGED <<urls, outcome, max_workers, enhance, pc, tasks,
                 results, collected, progress, bulkVars, auxVars>>

\* process_urls lines 112-123: one iteration of the as_completed loop
Collect(j) ==
  /\ pc = "collect"
  /\ Finished(j)
  /\ j \notin collected
  /\ results' = DictSet(results, jobs[j].url,
                        IF jobs[j].st = "raised" THEN NoPath
                        ELSE jobs[j].result)
  /\ collected' = collected \cup {j}
  /\ progress' = progress + 1
  /\ pc' = IF collected' = 1..Len(tasks) THEN "done" ELSE "collect"
  /\ UNCHANGED <<urls, outcome, max_workers, enhance, tasks, jobs, files,
                 outputs, foreign, bulkVars, auxVars>>

NextUrls ==
  \/ Expand
  \/ Submit
  \/ \E j \in 1..Len(jobs) : Download(j)
  \/ \E j \in 1..Len(jobs) : Transcribe(j)
  \/ \E j \in 1..Len(jobs) : Finish(j)
  \/ \E j \in 1..Len(jobs) : Collect(j)

SpecUrls == InitUrls /\ [][NextUrls]_vars

(***************************************************************************)
(* BulkProcessor (utils/bulk_processor.py) and the bulk file               *)
(* (utils/file_utils.py).  A line of the bulk file is a sequence of        *)
(* tokens: one-character strings and whole URLs.                           *)
(***************************************************************************)
\* load_urls_from_file
\* the comment test is made on the stripped line
load_urls_from_file_mut(lines) ==
  LET kept == SelectSeq(lines,
                LAMBDA line : Strip(line) # << >>
                              /\ Head(Strip(line)) # "#")
  IN  [i \in 1..Len(kept) |-> Strip(kept[i])]

load_urls_from_file(lines) ==
  LET kept == SelectSeq(lines,
                LAMBDA line : Strip(line) # << >>
                              /\ ~ (line # << >> /\ Head(line) = "#"))
  IN  [i \in 1..Len(kept) |-> Strip(kept[i])]

\* VideoDownloader.get_provider raises ValueError when no provider validates
has_provider(url) == Len(url) = 1 /\ url[1] \in Urls /\ url[1] # "nop"

\* provider.is_playlist_url
is_playlist_url(url) ==
  get_content_type(url[1]) \in {"playlist", "channel"}

\* provider.extract_video_urls; listing_fails: yt-dlp exits with an error,
\* which the provider turns into the empty list
extract_video_urls(url, listing_fails) ==
  IF ~ is_playlist_url(url) THEN << url >>
  ELSE IF listing_fails THEN << >>
  ELSE LET videos == SelectSeq(Entries(url[1]), LAMBDA e : e \in Videos)
       IN  [i \in 1..Len(videos) |-> << videos[i] >>]

\* the (video_url, playlist_title, playlist_id) tuples of one input URL;
\* origin records the input URL the tuple was expanded from
ExpandOne(url, listing_fails) ==
  IF has_provider(url) /\ is_playlist_url(url)
  THEN LET individual_urls == extract_video_urls(url, listing_fails)
       IN  [i \in 1..Len(individual_urls) |->
             [video_url |-> individual_urls[i],
              playlist_title |-> Title(url[1]),
              playlist_id |-> url[1], origin |-> url]]
  ELSE << [video_url |-> url, playlist_title |-> << >>,
           playlist_id |-> "", origin |-> url] >>

RECURSIVE expand_urls_with_context(_, _, _)
\* failing: the positions of the input list whose listing fails
expand_urls_with_context(url_list, i, failing) ==
  IF i > Len(url_list) THEN << >>
  ELSE ExpandOne(url_list[i], i \in failing)
       \o expand_urls_with_context(url_list, i + 1, failing)

InSeq(x, seq) == \E i \in 1..Len(seq) : seq[i] = x

\* all(video_url in successful_urls for video_url in videos_from_this_url)
AllSuccessful(videos, successful) ==
  \A i \in 1..Len(videos) : InSeq(videos[i], successful)

\* _update_bulk_file_with_expansion_context, lines 348-371
RemainingWithContext(original_urls, successful, failing) ==
  LET videos_from(i) ==
        IF has_provider(original_urls[i])
        THEN extract_video_urls(original_urls[i], i \in failing)
        ELSE << original_urls[i] >>
      keep == {i \in 1..Len(original_urls) :
                 ~ AllSuccessful(videos_from(i), successful)}
      F[i \in 0..Len(original_urls)] ==
        IF i = 0 THEN << >>
        ELSE IF i \in keep THEN Append(F[i - 1], original_urls[i])
        ELSE F[i - 1]
  IN  F[Len(original_urls)]

\* _update_bulk_file_with_expansion, lines 306-324
RemainingThreaded(original_urls, successful, failing) ==
  LET keep == {i \in 1..Len(original_urls) :
                 \/ ~ has_provider(original_urls[i])
                 \/ ~ AllSuccessful(
                        extract_video_urls(original_urls[i], i \in failing),
                        successful)}
      F[i \in 0..Len(original_urls)] ==
        IF i = 0 THEN << >>
        ELSE IF i \in keep THEN Append(F[i - 1], original_urls[i])
        ELSE F[i - 1]
  IN  F[Len(original_urls)]

\* the lines a bulk file may hold
BulkLines == {<<"v1">>, <<"pl">>, <<"nop">>, <<"#", "n">>, <<" ">>}

BulkFiles == UNION {[1..n -> BulkLines] : n \in 0..MaxLines}

\* process_urls is not running
UrlsIdle ==
  /\ urls = << >>
  /\ outcome = [v \in Videos |-> "any"]
  /\ enhance = FALSE
  /\ pc = "off"
  /\ tasks = << >>
  /\ jobs = << >>
  /\ files = {}
  /\ outputs = {}
  /\ results = EmptyDict
  /\ collected = {}
  /\ progress = 0
  /\ foreign = {}

InitBulk ==
  /\ file_exists \in BOOLEAN
  /\ bulk_file \in (IF file_exists THEN BulkFiles ELSE {<< >>})
  /\ dirs_created = 0
  /\ file0 = bulk_file
  /\ b_method \in {"sequential", "threaded"}
  /\ max_workers \in 1..MaxWorkers
  /\ b_pc = "load"
  /\ b_urls = << >>
  /\ expanded_data = << >>
  /\ b_jobs = << >>
  /\ successful_urls = << >>
  /\ failed_urls = << >>
  /\ remaining_original_urls = << >>
  /\ written = 0
  /\ save_calls = 0
  /\ progress_calls = << >>
  /\ UrlsIdle
  /\ ProvIdle
  /\ PureIdle

\* the method goes on with an empty list
BulkLoad_mut ==
  /\ b_pc = "load"
  /\ b_urls' = IF file_exists THEN load_urls_from_file(bulk_file) ELSE << >>
  /\ b_pc' = "expand"
  /\ UNCHANGED <<bulk_file, file0, b_method, expanded_data, b_jobs,
                 successful_urls, failed_urls, remaining_original_urls,
                 written, save_calls, progress_calls, file_exists,
                 dirs_created, urlsVars, max_workers, auxVars>>

\* lines 165-167, 507-509 and 580-582; load_urls_from_file returns the empty
\* list for a file that does not exist (file_utils.py 52-53), and the method
\* raises ValueError for an empty list
BulkLoad ==
  /\ b_pc = "load"
  /\ b_urls' = IF file_exists THEN load_urls_from_file(bulk_file) ELSE << >>
  /\ b_pc' = IF b_urls' = << >> THEN "error" ELSE "expand"
  /\ UNCHANGED <<bulk_file, file0, b_method, expanded_data, b_jobs,
                 successful_urls, failed_urls, remaining_original_urls,
                 written, save_calls, progress_calls, file_exists,
                 dirs_created, urlsVars,
                 max_workers, auxVars>>

Playlists(url_list) ==
  {i \in 1..Len(url_list) :
     has_provider(url_list[i]) /\ is_playlist_url(url_list[i])}

\* lines 169-195 and 511-538: expansion, and for the threaded method the
\* submission of every video to the pool
BulkExpand ==
  /\ b_pc = "expand"
  /\ \E failing \in SUBSET Playlists(b_urls) :
       expanded_data' = expand_urls_with_context(b_urls, 1, failing)
  /\ Len(expanded_data') <= MaxJobs
  /\ b_jobs' = [j \in 1..Len(expanded_data') |-> "queued"]
  /\ dirs_created' = IF b_method = "threaded" THEN 1 ELSE 0
  /\ b_pc' = "run"
  /\ UNCHANGED <<bulk_file, file0, b_method, b_urls, successful_urls,
                 failed_urls, remaining_original_urls, written, save_calls,
                 progress_calls, file_exists, urlsVars, max_workers, auxVars>>

\* the external tools succeed or fail for a video; without a provider the
\* worker always fails
WorkerOutcomes(url) == IF has_provider(url) THEN {TRUE, FALSE} ELSE {FALSE}

\* a pool thread starts _process_single_video_transcription
BulkWorkerStart(j) ==
  /\ b_method = "threaded"
  /\ b_pc = "run"
  /\ b_jobs[j] = "queued"
  /\ \A k \in 1..(j - 1) : b_jobs[k] # "queued"
  /\ Cardinality({k \in 1..Len(b_jobs) : b_jobs[k] = "running"}) < max_workers
  /\ b_jobs' = [b_jobs EXCEPT ![j] = "running"]
  /\ UNCHANGED <<bulk_file, file0, b_method, b_pc, b_urls, expanded_data,
                 successful_urls, failed_urls, remaining_original_urls,
                 written, save_calls, progress_calls, file_exists,
                 dirs_created, urlsVars,
                 max_workers, auxVars>>

\* _process_single_video_transcription returns (url, success, error_msg),
\* lines 427-450
BulkWorkerEnd(j) ==
  /\ b_jobs[j] = "running"
  /\ \E success \in WorkerOutcomes(expanded_data[j].video_url) :
       b_jobs' = [b_jobs EXCEPT ![j] = IF success THEN "ok" ELSE "failed"]
  /\ UNCHANGED <<bulk_file, file0, b_method, b_pc, b_urls, expanded_data,
                 successful_urls, failed_urls, remaining_original_urls,
                 written, save_calls, progress_calls, file_exists,
                 dirs_created, urlsVars,
                 max_workers, auxVars>>

\* a failed result is collected into neither list
BulkCollect_mut(j) ==
  /\ b_pc = "run"
  /\ b_jobs[j] \in {"ok", "failed"}
  /\ IF b_jobs[j] = "ok"
     THEN /\ successful_urls' =
               Append(successful_urls, expanded_data[j].video_url)
          /\ failed_urls' = failed_urls
          /\ b_jobs' = [b_jobs EXCEPT ![j] = "ok_collected"]
     ELSE /\ failed_urls' = failed_urls
          /\ successful_urls' = successful_urls
          /\ b_jobs' = [b_jobs EXCEPT ![j] = "failed_collected"]
  /\ progress_calls' = Append(progress_calls,
       [completed |-> Len(successful_urls') + Len(failed_urls'),
        total |-> Len(expanded_data),
        url |-> expanded_data[j].video_url,
        job_done |-> TRUE])
  /\ UNCHANGED <<bulk_file, file0, b_method, b_pc, b_urls, expanded_data,
                 remaining_original_urls, written, save_calls, file_exists,
                 dirs_created, urlsVars,
                 max_workers, auxVars>>

\* one iteration of the as_completed loop, lines 541-553
BulkCollect(j) ==
  /\ b_pc = "run"
  /\ b_jobs[j] \in {"ok", "failed"}
  /\ IF b_jobs[j] = "ok"
     THEN /\ successful_urls' =
               Append(successful_urls, expanded_data[j].video_url)
          /\ failed_urls' = failed_urls
          /\ b_jobs' = [b_jobs EXCEPT ![j] = "ok_collected"]
     ELSE /\ failed_urls' = Append(failed_urls, expanded_data[j].video_url)
          /\ successful_urls' = successful_urls
          /\ b_jobs' = [b_jobs EXCEPT ![j] = "failed_collected"]
  /\ progress_calls' = Append(progress_calls,
       [completed |-> Len(successful_urls') + Len(failed_urls'),
        total |-> Len(expanded_data),
        url |-> expanded_data[j].video_url,
        job_done |-> TRUE])
  /\ UNCHANGED <<bulk_file, file0, b_method, b_pc, b_urls, expanded_data,
                 remaining_original_urls, written, save_calls, file_exists,
                 dirs_created, urlsVars,
                 max_workers, auxVars>>

\* the key of playlist_groups, lines 179-191
GroupKey(e) ==
  IF e.playlist_title # << >> THEN <<e.playlist_title, e.playlist_id>>
  ELSE << << >>, "" >>

\* position of the Job's group in playlist_groups (insertion order)
GroupPos(j) ==
  CHOOSE k \in 1..j :
    /\ GroupKey(expanded_data[k]) = GroupKey(expanded_data[j])
    /\ \A m \in 1..(k - 1) :
         GroupKey(expanded_data[m]) # GroupKey(expanded_data[j])

\* i of enumerate(video_urls, 1), line 220
IndexInGroup(j) ==
  Cardinality({k \in 1..j :
                 GroupKey(expanded_data[k]) = GroupKey(expanded_data[j])})

\* total_in_group = len(video_urls), line 221
GroupSize(j) ==
  Cardinality({k \in 1..Len(expanded_data) :
                 GroupKey(expanded_data[k]) = GroupKey(expanded_data[j])})

\* one iteration of the inner loop of process_bulk_transcription,
\* lines 220-240: progress_callback is called at the top of the iteration,
\* before the video is processed
BulkSeqProcess(j) ==
  /\ b_method = "sequential"
  /\ b_pc = "run"
  /\ b_jobs[j] = "queued"
  /\ \A k \in 1..Len(b_jobs) :
       b_jobs[k] = "queued" =>
         \/ GroupPos(j) < GroupPos(k)
         \/ GroupPos(j) = GroupPos(k) /\ j <= k
  /\ \E success \in WorkerOutcomes(expanded_data[j].video_url) :
       IF success
       THEN /\ successful_urls' =
                 Append(successful_urls, expanded_data[j].video_url)
            /\ failed_urls' = failed_urls
            /\ b_jobs' = [b_jobs EXCEPT ![j] = "ok_collected"]
       ELSE /\ failed_urls' = Append(failed_urls, expanded_data[j].video_url)
            /\ successful_urls' = successful_urls
            /\ b_jobs' = [b_jobs EXCEPT ![j] = "failed_collected"]
  /\ progress_calls' = Append(progress_calls,
       [completed |-> IndexInGroup(j),
        total |-> GroupSize(j),
        url |-> expanded_data[j].video_url,
        job_done |-> FALSE])
  /\ dirs_created' = IF IndexInGroup(j) = 1 THEN dirs_created + 1
                     ELSE dirs_created
  /\ UNCHANGED <<bulk_file, file0, b_method, b_pc, b_urls, expanded_data,
                 remaining_original_urls, written, save_calls, file_exists,
                 urlsVars,
                 max_workers, auxVars>>

\* the update does not wait for the pool
AllJobsDone_mut == TRUE

\* the pool has shut down (end of the with block) or the loops have ended
AllJobsDone ==
  \A j \in 1..Len(b_jobs) : b_jobs[j] \in {"ok_collected", "failed_collected"}

\* _update_bulk_file_with_expansion(_context) up to and including the
\* open(file_path, 'w') of save_urls_to_file, which truncates the file
BulkUpdate ==
  /\ b_pc = "run"
  /\ AllJobsDone
  /\ IF successful_urls = << >>
     THEN /\ b_pc' = "done"
          /\ UNCHANGED <<bulk_file, remaining_original_urls, written,
                         save_calls, file_exists>>
     ELSE /\ \E failing \in SUBSET Playlists(b_urls) :
               remaining_original_urls' =
                 IF b_method = "sequential"
                 THEN RemainingWithContext(b_urls, successful_urls, failing)
                 ELSE RemainingThreaded(b_urls, successful_urls, failing)
          /\ bulk_file' = << >>
          /\ file_exists' = TRUE
          /\ written' = 0
          /\ save_calls' = save_calls + 1
          /\ b_pc' = "saving"
  /\ UNCHANGED <<file0, b_method, b_urls, expanded_data, b_jobs,
                 successful_urls, failed_urls, progress_calls, dirs_created,
                 urlsVars,
                 max_workers, auxVars>>

\* save_urls_to_file, line 74: f.write(f"{url}\n")
SaveWrite ==
  /\ b_pc = "saving"
  /\ written < Len(remaining_original_urls)
  /\ bulk_file' = Append(bulk_file, remaining_original_urls[written + 1])
  /\ written' = written + 1
  /\ UNCHANGED <<file0, b_method, b_pc, b_urls, expanded_data, b_jobs,
                 successful_urls, failed_urls, remaining_original_urls,
                 save_calls, progress_calls, file_exists, dirs_created,
                 urlsVars, max_workers, auxVars>>

\* save_urls_to_file: end of the with block, and the return of the method
SaveClose ==
  /\ b_pc = "saving"
  /\ written = Len(remaining_original_urls)
  /\ b_pc' = "done"
  /\ UNCHANGED <<bulk_file, file0, b_method, b_urls, expanded_data, b_jobs,
                 successful_urls, failed_urls, remaining_original_urls,
                 written, save_calls, progress_calls, file_exists,
                 dirs_created, urlsVars,
                 max_workers, auxVars>>

NextBulk ==
  \/ BulkLoad
  \/ BulkExpand
  \/ \E j \in 1..Len(b_jobs) : BulkWorkerStart(j)
  \/ \E j \in 1..Len(b_jobs) : BulkWorkerEnd(j)
  \/ \E j \in 1..Len(b_jobs) : BulkCollect(j)
  \/ \E j \in 1..Len(b_jobs) : BulkSeqProcess(j)
  \/ BulkUpdate
  \/ SaveWrite
  \/ SaveClose

SpecBulk == InitBulk /\ [][NextBulk]_vars

(***************************************************************************)
(* core/providers/base.py: the cookie fallback of BaseYtDlpProvider.  The   *)
(* Downloader creates one instance of each provider and get_provider hands *)
(* that instance to every pool thread.                                     *)
(***************************************************************************)
\* self._cookie_browsers, line 67
CookieBrowsers == <<"zen", "firefox", "chrome", "safari", "edge">>

\* the value of cookiesfrombrowser when the option is absent
NoCookies == "none"

\* provider calls made during one run, by all pool threads together
MaxCalls == 2

\* what one yt-dlp run answers: a result, the DownloadError "Sign in to
\* confirm you're not a bot", or another DownloadError
Responses == {"ok", "bot", "error"}

\* _add_cookie_support, lines 87-122: both option dicts get the cookie source
\* of the current browser; zen without a Zen profile directory is firefox
add_cookie_support(p) ==
  IF p.idx < Len(CookieBrowsers)
  THEN LET browser == CookieBrowsers[p.idx + 1]
           cookie_config == IF browser = "zen" /\ ~ p.zen_profile
                            THEN "firefox" ELSE browser
       IN  [p EXCEPT !.extract = cookie_config, !.download = cookie_config]
  ELSE p

\* __init__, lines 63-85
provider_init(zen) ==
  add_cookie_support([idx |-> 0, extract |-> NoCookies,
                      download |-> NoCookies, zen_profile |-> zen])

\* _try_next_browser, lines 124-135; loaded is the value the thread read
\* from self._current_browser_idx for the `+= 1` of line 126, which is a
\* read and a write with no lock between them
try_next_browser(p, loaded) ==
  LET q == [p EXCEPT !.idx = loaded + 1]
  IN  IF q.idx < Len(CookieBrowsers) THEN add_cookie_support(q)
      ELSE [q EXCEPT !.extract = NoCookies, !.download = NoCookies]

\* max_retries, lines 149 and 227
max_retries == Len(CookieBrowsers) + 1

IdleThread ==
  [pc |-> "idle", kind |-> "none", attempt |-> 0, opts |-> NoCookies,
   tried |-> << >>, made |-> 0, loaded |-> 0]

\* number of provider calls entered so far
CallsMade ==
  LET S[i \in 0..Len(threads)] ==
        IF i = 0 THEN 0 ELSE S[i - 1] + threads[i].made
  IN  S[Len(threads)]

InitProvider ==
  /\ max_workers \in 1..MaxWorkers
  /\ \E zen \in BOOLEAN : provider = provider_init(zen)
  /\ threads = [t \in 1..max_workers |-> IdleThread]
  /\ shared_writes = {}
  /\ UrlsIdle
  /\ BulkIdle
  /\ PureIdle

\* a pool thread enters get_metadata (line 147) or download_audio (line 208,
\* which copies self._ydl_download_opts at line 219)
StartCall(t, kind) ==
  /\ threads[t].pc \in {"idle", "returned", "raised_bot", "raised_error"}
  /\ CallsMade < MaxCalls
  /\ threads' = [threads EXCEPT ![t] =
       [pc |-> "attempt", kind |-> kind, attempt |-> 0,
        opts |-> IF kind = "download" THEN provider.download ELSE NoCookies,
        tried |-> << >>, made |-> @.made + 1, loaded |-> 0]]
  /\ UNCHANGED <<provider, shared_writes, max_workers, urlsVars, bulkVars,
                 pureVars>>

\* one iteration of the retry loop, lines 151-203 and 229-265: a yt-dlp run
\* with the options in force and the handling of its answer, up to the read
\* of self._current_browser_idx in _try_next_browser
Attempt(t, response) ==
  LET c == threads[t]
      used == IF c.kind = "download" THEN c.opts ELSE provider.extract
      tried == Append(c.tried, used)
  IN  /\ c.pc = "attempt"
      /\ threads' = [threads EXCEPT
           ![t].tried = tried,
           ![t].pc = IF response = "ok" THEN "returned"
                     ELSE IF response = "bot" /\ c.attempt < max_retries - 1
                     THEN "store"
                     ELSE IF response = "bot" THEN "raised_bot"
                     ELSE "raised_error",
           ![t].loaded = IF response = "bot" /\ c.attempt < max_retries - 1
                         THEN provider.idx ELSE @]
      /\ UNCHANGED <<provider, shared_writes, max_workers, urlsVars,
                     bulkVars, pureVars>>

\* the rest of _try_next_browser, lines 126-135, and the `continue` of the
\* loop (download_audio copies the download options again, lines 260-262)
StoreNext(t) ==
  LET c == threads[t]
      next == try_next_browser(provider, c.loaded)
  IN  /\ c.pc = "store"
      /\ provider' = next
      /\ shared_writes' = shared_writes \cup
           {[thread |-> t, field |-> f] :
              f \in {g \in {"idx", "extract", "download"} :
                        next[g] # provider[g]}}
      /\ threads' = [threads EXCEPT ![t].pc = "attempt",
                                    ![t].attempt = @ + 1,
                                    ![t].opts = IF c.kind = "download"
                                                THEN next.download ELSE @]
      /\ UNCHANGED <<max_workers, urlsVars, bulkVars, pureVars>>

NextProvider ==
  \/ \E t \in DOMAIN threads : \E kind \in {"metadata", "download"} :
       StartCall(t, kind)
  \/ \E t \in DOMAIN threads : \E response \in Responses :
       Attempt(t, response)
  \/ \E t \in DOMAIN threads : StoreNext(t)

SpecProvider == InitProvider /\ [][NextProvider]_vars

(***************************************************************************)
(* _expand_url called on its own, for every URL of the platform and every  *)
(* context.                                                                *)
(***************************************************************************)
\* longest context handed to _expand_url
MaxContext == 2

\* folder names of the contexts
ContextNames == {<<"x">>, <<"y", "z">>}

Contexts == UNION {[1..n -> ContextNames] : n \in 0..MaxContext}

InitExpand ==
  /\ \E url \in Urls, context \in Contexts :
       call = [fn |-> "expand_url", st |-> "called", url |-> url,
               context |-> context]
  /\ ret = << >>
  /\ max_workers = 1
  /\ UrlsIdle
  /\ BulkIdle
  /\ ProvIdle

\* list(_expand_url(url, downloader, context))
ExpandCall ==
  /\ call.fn = "expand_url"
  /\ call.st = "called"
  /\ ret' = expand_url(call.url, call.context)
  /\ call' = [call EXCEPT !.st = "returned"]
  /\ UNCHANGED <<urlsVars, bulkVars, max_workers, provVars>>

NextExpand == ExpandCall

SpecExpand == InitExpand /\ [][NextExpand]_vars

(***************************************************************************)
(* file_utils.load_urls_from_file called on its own, on a file given as    *)
(* the lines the iteration over the open file yields: each line keeps its  *)
(* newline, which only the last line of a file may lack.                   *)
(***************************************************************************)
MaxFileLines == 3

RawLines ==
  {<<"v1", "\n">>, <<" ", "v2", " ", "\n">>, <<"\n">>, <<" ", "\n">>,
   <<"#", " ", "n", "\n">>, <<" ", "#", "n", "\n">>}

\* a last line without newline
LastLines == {<<"v2">>, <<"#", "n">>}

RawFiles ==
  UNION {{f \in [1..n -> RawLines \cup LastLines] :
            \A i \in 1..(n - 1) : f[i] \in RawLines} : n \in 0..MaxFileLines}

InitLoad ==
  /\ \E exists \in BOOLEAN :
     \E lines \in (IF exists THEN RawFiles ELSE {<< >>}) :
       call = [fn |-> "load_urls_from_file", st |-> "called",
               exists |-> exists, lines |-> lines]
  /\ ret = << >>
  /\ max_workers = 1
  /\ UrlsIdle
  /\ BulkIdle
  /\ ProvIdle

\* lines 52-62
LoadCall ==
  /\ call.fn = "load_urls_from_file"
  /\ call.st = "called"
  /\ ret' = IF call.exists THEN load_urls_from_file(call.lines) ELSE << >>
  /\ call' = [call EXCEPT !.st = "returned"]
  /\ UNCHANGED <<urlsVars, bulkVars, max_workers, provVars>>

NextLoad == LoadCall

SpecLoad == InitLoad /\ [][NextLoad]_vars

(***************************************************************************)
(* file_utils.save_urls_to_file followed by load_urls_from_file on the     *)
(* same path.  The file is the text written; reading it yields its lines,  *)
(* each ending after a newline.                                            *)
(***************************************************************************)
MaxListLen == 3

\* strings handed to save_urls_to_file: URLs (one with a fragment), and
\* strings that are not URLs
UrlStrings ==
  {<<"v1">>, <<"v2">>, <<"v1", "#", "n">>, <<" ", "v1">>, <<"#", "n">>, << >>}

\* a URL is not empty, holds no whitespace and starts with its scheme
IsUrl(u) ==
  /\ u # << >>
  /\ u[1] # "#"
  /\ \A i \in 1..Len(u) : u[i] \notin SpaceChars

RECURSIVE WriteText(_)
\* the newline is left out
WriteText_mut(url_list) ==
  IF url_list = << >> THEN << >>
  ELSE LET F[i \in 1..Len(url_list)] ==
             IF i = 1 THEN url_list[1] ELSE F[i - 1] \o url_list[i]
       IN  F[Len(url_list)]

\* lines 72-74: f.write(f"{url}\n") for each url
WriteText(url_list) ==
  IF url_list = << >> THEN << >>
  ELSE Head(url_list) \o <<"\n">> \o WriteText(Tail(url_list))

RECURSIVE ReadLines(_, _)
\* `for line in f`: the text cut after each newline; cur is the line begun
ReadLines(text, cur) ==
  IF text = << >> THEN (IF cur = << >> THEN << >> ELSE << cur >>)
  ELSE IF Head(text) = "\n"
       THEN << Append(cur, "\n") >> \o ReadLines(Tail(text), << >>)
       ELSE ReadLines(Tail(text), Append(cur, Head(text)))

InitRoundTrip ==
  /\ \E n \in 0..MaxListLen : \E url_list \in [1..n -> UrlStrings] :
       call = [fn |-> "save_urls_to_file", st |-> "called",
               urls |-> url_list, text |-> << >>]
  /\ ret = << >>
  /\ max_workers = 1
  /\ UrlsIdle
  /\ BulkIdle
  /\ ProvIdle

\* save_urls_to_file, lines 72-74
SaveCall ==
  /\ call.fn = "save_urls_to_file"
  /\ call.st = "called"
  /\ call' = [call EXCEPT !.st = "saved", !.text = WriteText(call.urls)]
  /\ UNCHANGED <<ret, urlsVars, bulkVars, max_workers, provVars>>

\* load_urls_from_file on the file just written
ReloadCall ==
  /\ call.fn = "save_urls_to_file"
  /\ call.st = "saved"
  /\ ret' = load_urls_from_file(ReadLines(call.text, << >>))
  /\ call' = [call EXCEPT !.st = "returned"]
  /\ UNCHANGED <<urlsVars, bulkVars, max_workers, provVars>>

NextRoundTrip == SaveCall \/ ReloadCall

SpecRoundTrip == InitRoundTrip /\ [][NextRoundTrip]_vars

(***************************************************************************)
(* file_utils.sanitize_folder_name called on its own.                      *)
(***************************************************************************)
MaxNameLen == 3

MaxMaxLength == 8

\* a word character, whitespace, a forbidden character and a character
\* outside the safe set
NameChars == {"a", "b", " ", "/", "!"}

Names == UNION {[1..n -> NameChars] : n \in 0..MaxNameLen}

InitSanitize ==
  /\ \E name \in Names, max_length \in 1..MaxMaxLength :
       call = [fn |-> "sanitize_folder_name", st |-> "called",
               name |-> name, max_length |-> max_length]
  /\ ret = << >>
  /\ max_workers = 1
  /\ UrlsIdle
  /\ BulkIdle
  /\ ProvIdle

SanitizeCall ==
  /\ call.fn = "sanitize_folder_name"
  /\ call.st = "called"
  /\ ret' = sanitize_folder_name(call.name, call.max_length)
  /\ call' = [call EXCEPT !.st = "returned"]
  /\ UNCHANGED <<urlsVars, bulkVars, max_workers, provVars>>

NextSanitize == SanitizeCall

SpecSanitize == InitSanitize /\ [][NextSanitize]_vars

(***************************************************************************)
(* The expansion loop of process_urls (lines 75-77) step by step: the      *)
(* generators of _expand_url that are suspended in one another form a      *)
(* stack of frames, the innermost last.  A frame holds the URL, the        *)
(* context it was called with and the position k of its loop over the      *)
(* entries (0: the body has not started).                                  *)
(***************************************************************************)
Frame(url, context) == [url |-> url, context |-> context, k |-> 0]

\* the callers end with the generator
PopFrame_mut(stack) == << >>

\* a generator returns: its caller goes on
PopFrame(stack) == SubSeq(stack, 1, Len(stack) - 1)

InitWalk ==
  /\ \E n \in 1..MaxUrls : \E url_list \in [1..n -> Urls] :
       call = [fn |-> "process_urls", st |-> "expanding", urls |-> url_list,
               i |-> 0, stack |-> << >>]
  /\ ret = << >>
  /\ max_workers = 1
  /\ UrlsIdle
  /\ BulkIdle
  /\ ProvIdle

\* process_urls lines 76-82: the next input URL, or the end of the loop
WalkNextUrl ==
  /\ call.fn = "process_urls"
  /\ call.st = "expanding"
  /\ call.stack = << >>
  /\ IF call.i < Len(call.urls)
     THEN call' = [call EXCEPT !.i = @ + 1,
                               !.stack = << Frame(call.urls[call.i + 1],
                                                  << >>) >>]
     ELSE call' = [call EXCEPT !.st = "expanded"]
  /\ UNCHANGED <<ret, urlsVars, bulkVars, max_workers, provVars>>

\* _expand_url lines 30-41 and 53-56: the body of the innermost generator up
\* to its loop, or to its end
WalkEnter ==
  /\ call.fn = "process_urls"
  /\ call.st = "expanding"
  /\ call.stack # << >>
  /\ LET n == Len(call.stack)
         f == call.stack[n]
         content_type == get_content_type(f.url)
     IN  /\ f.k = 0
         /\ IF get_provider(f.url) = "none" \/ content_type = "unknown"
            THEN /\ call' = [call EXCEPT !.stack = PopFrame(@)]
                 /\ ret' = ret
            ELSE IF content_type = "video"
            THEN /\ call' = [call EXCEPT !.stack = PopFrame(@)]
                 /\ ret' = Append(ret, [url |-> f.url, context |-> f.context])
            ELSE IF MetadataFails(f.url)
            THEN /\ call' = [call EXCEPT !.stack = PopFrame(@)]
                 /\ ret' = ret
            ELSE /\ call' =
                      [call EXCEPT !.stack[n] =
                         [f EXCEPT !.k = 1,
                                   !.context =
                                     Append(@, sanitize_folder_name(
                                                 Title(f.url),
                                                 DefaultMaxLength))]]
                 /\ ret' = ret
  /\ UNCHANGED <<urlsVars, bulkVars, max_workers, provVars>>

\* _expand_url lines 44-50: one iteration of the loop over the entries, or
\* its end
WalkEntry ==
  /\ call.fn = "process_urls"
  /\ call.st = "expanding"
  /\ call.stack # << >>
  /\ LET n == Len(call.stack)
         f == call.stack[n]
         entries == Entries(f.url)
     IN  /\ f.k > 0
         /\ IF f.k > Len(entries)
            THEN call' = [call EXCEPT !.stack = PopFrame(@)]
            ELSE IF entries[f.k] = ""
            THEN call' = [call EXCEPT !.stack[n].k = @ + 1]
            ELSE call' =
                   [call EXCEPT !.stack =
                      Append([@ EXCEPT ![n].k = @ + 1],
                             Frame(entries[f.k], f.context))]
  /\ UNCHANGED <<ret, urlsVars, bulkVars, max_workers, provVars>>

NextWalk == WalkNextUrl \/ WalkEnter \/ WalkEntry

SpecWalk == InitWalk /\ [][NextWalk]_vars

\* the main thread is the only thread of the expansion and runs on
SpecWalkLive == SpecWalk /\ WF_vars(NextWalk)

(***************************************************************************)
(* The audio filter chain of speed_up_audio (file_utils.py 305-328) and    *)
(* process_audio_for_transcription (456-468).  A multiplier is a number of *)
(* quarters (speed = n/4), so every value the loop computes is a dyadic    *)
(* rational <<num, den>> that a float holds exactly; a filter value is a   *)
(* number of thousandths, as the format :.3f prints it.                    *)
(***************************************************************************)
MaxSpeed == 24

\* f'{num/den:.3f}' in thousandths: the exact value rounded half to even
Format3(num, den) ==
  LET t == num * 1000
      q == t \div den
      r == t % den
  IN  IF 2 * r < den THEN q
      ELSE IF 2 * r > den THEN q + 1
      ELSE IF q % 2 = 0 THEN q ELSE q + 1

InitSpeed ==
  /\ \E fn \in {"speed_up_audio", "process_audio_for_transcription"},
        n \in 1..MaxSpeed, preserve_pitch \in BOOLEAN :
       call = [fn |-> fn, st |-> "called", speed |-> n,
               preserve_pitch |-> preserve_pitch,
               remaining_speed |-> <<n, 4>>]
  /\ ret = << >>
  /\ max_workers = 1
  /\ UrlsIdle
  /\ BulkIdle
  /\ ProvIdle

\* the branches around the loop: speed_up_audio 305-328,
\* process_audio_for_transcription 456-468
SpeedBranch ==
  /\ call.fn \in {"speed_up_audio", "process_audio_for_transcription"}
  /\ call.st = "called"
  /\ LET n == call.speed
     IN  IF call.preserve_pitch /\ n # 4
         THEN IF n > 8
              THEN /\ call' = [call EXCEPT !.st = "loop"]
                   /\ ret' = << >>
              ELSE /\ call' = [call EXCEPT !.st = "done"]
                   /\ ret' = <<[name |-> "atempo", value |-> Format3(n, 4)]>>
         ELSE IF call.fn = "process_audio_for_transcription" /\ n = 4
              THEN /\ call' = [call EXCEPT !.st = "done"]
                   /\ ret' = << >>
              ELSE /\ call' = [call EXCEPT !.st = "done"]
                   /\ ret' = <<[name |-> "tempo", value |-> Format3(n, 4)]>>
  /\ UNCHANGED <<urlsVars, bulkVars, max_workers, provVars>>

\* one test of the while condition: an iteration, or the exit and the
\* statement after the loop
SpeedLoop ==
  /\ call.fn \in {"speed_up_audio", "process_audio_for_transcription"}
  /\ call.st = "loop"
  /\ LET num == call.remaining_speed[1]
         den == call.remaining_speed[2]
     IN  IF num > 2 * den
         THEN /\ call' = [call EXCEPT !.remaining_speed = <<num, 2 * den>>]
              /\ ret' = Append(ret, [name |-> "atempo", value |-> 2000])
         ELSE /\ call' = [call EXCEPT !.st = "done"]
              /\ ret' = IF num # den
                        THEN Append(ret, [name |-> "atempo",
                                          value |-> Format3(num, den)])
                        ELSE ret
  /\ UNCHANGED <<urlsVars, bulkVars, max_workers, provVars>>

NextSpeed == SpeedBranch \/ SpeedLoop

SpecSpeedLive == InitSpeed /\ [][NextSpeed]_vars /\ WF_vars(NextSpeed)

Init == InitUrls \/ InitBulk

Next == NextUrls \/ NextBulk

Spec == Init /\ [][Next]_vars

(***************************************************************************)
(* Reference run: the Jobs of the task list executed one after the other   *)
(* in submission order, each collected when it ends (max_workers = 1).     *)
(***************************************************************************)
NeedsTranscriber(job) ==
  job.st = "downloaded" /\ ~ is_transcript_file(job.downloaded_file)

ReadyToFinish(job) ==
  job.st = "downloaded" /\ is_transcript_file(job.downloaded_file)

RunOneJob(task, j, fs) ==
  LET o == outcome[task.url]
      job0 == NewJob(task)
      d == DownloadStep(job0, j, fs, CHOOSE x \in DlOutcome(o) : TRUE,
                        CHOOSE q \in PickSet(job0, fs) : TRUE)
      t == IF NeedsTranscriber(d.job)
           THEN TranscribeStep(d.job, j, d.files,
                               CHOOSE x \in TrOutcome(o) : TRUE)
           ELSE d
      f == IF ReadyToFinish(t.job)
           THEN FinishStep(t.job, j, t.files, enhance,
                           CHOOSE x \in EnhOutcome(o) : TRUE,
                           CHOOSE x \in WrOutcome(o) : TRUE)
           ELSE t
  IN  [job |-> f.job, files |-> f.files]

RECURSIVE SequentialRun(_, _, _)
SequentialRun(j, fs, res) ==
  IF j > Len(tasks) THEN res
  ELSE LET r == RunOneJob(tasks[j], j, fs)
       IN  SequentialRun(j + 1, r.files,
             DictSet(res, tasks[j].url,
                     IF r.job.st = "raised" THEN NoPath ELSE r.job.result))

Succeeded(res) == {u \in DOMAIN res : res[u] # NoPath}

Failed(res) == {u \in DOMAIN res : res[u] = NoPath}

Range(seq) == {seq[i] : i \in 1..Len(seq)}

JobOk(j) == b_jobs[j] \in {"ok", "ok_collected"}

(***************************************************************************)
(* Properties.                                                             *)
(***************************************************************************)

\* C1: after a bulk run, an original URL that expanded into at least one
\* video Job is absent from the bulk file if and only if every Job expanded
\* from it succeeded.
C1_RemovedIffAllSucceeded ==
  b_pc = "done" =>
    \A i \in 1..Len(b_urls) :
      LET mine == {j \in 1..Len(expanded_data) :
                     expanded_data[j].origin = b_urls[i]}
      IN  mine # {} =>
            (~ InSeq(b_urls[i], load_urls_from_file(bulk_file))
               <=> \A j \in mine : JobOk(j))

\* C2: the mapping returned by process_urls is keyed by the original input
\* URLs; a single channel URL that expands to three Jobs gives exactly one
\* entry, keyed by the channel URL.
C2_KeyedByOriginalUrl ==
  pc = "done" =>
    /\ DOMAIN results \subseteq Range(urls)
    /\ (Len(urls) = 1 /\ Len(tasks) = 3) => DOMAIN results = {urls[1]}

\* C3: every Job of the task list of process_urls has a provider and a URL
\* of content type video.
C3_OnlyVideoJobs ==
  \A i \in 1..Len(tasks) :
    /\ get_provider(tasks[i].url) # "none"
    /\ get_content_type(tasks[i].url) = "video"

C3_Witness ==
  /\ pc = "done"
  /\ urls = <<"chan", "nop">>
  /\ Len(tasks) = 3

\* C4: whatever the worker count and the interleaving, the sets of succeeded
\* and of failed video URLs of a run equal those of the run that executes the
\* same Jobs with the same per-video outcomes one at a time.
C4_SameSetsAsSequential ==
  pc = "done" =>
    LET ref == SequentialRun(1, {}, EmptyDict)
    IN  /\ Succeeded(results) = Succeeded(ref)
        /\ Failed(results) = Failed(ref)

C6_OneOutcomePerJob ==
  pc = "done" =>
    /\ \A j \in 1..Len(jobs) : jobs[j].runs = 1
    /\ Len(jobs) = Len(tasks)
    /\ Cardinality(DOMAIN results) = Len(tasks)

\* C7: the bulk file is written by at most one call of save_urls_to_file, and
\* while a Job is pending or running (or the run has not yet expanded its
\* URLs) the file holds what it held when the run started.
C7_WrittenOnceAfterAllJobs ==
  /\ save_calls <= 1
  /\ (\/ b_pc \in {"load", "expand"}
      \/ \E j \in 1..Len(b_jobs) : b_jobs[j] \in {"queued", "running"})
       => (bulk_file = file0 /\ save_calls = 0)

C7_Witness ==
  /\ b_pc = "done"
  /\ save_calls = 1
  /\ bulk_file # file0
  /\ Len(b_jobs) >= 2
  /\ b_method = "threaded"

\* C8: at every instant the bulk file holds either the complete URL list it
\* held before the run or the complete list of remaining URLs.
C8_AtomicRewrite ==
  \/ load_urls_from_file(bulk_file) = load_urls_from_file(file0)
  \/ /\ b_pc \in {"saving", "done"}
     /\ bulk_file = remaining_original_urls

\* C9: once the worker of a Job has ended, no audio file or intermediate
\* transcript written by that Job exists in the processing directory.
C9_NoTempFilesAfterJob ==
  \A j \in 1..Len(jobs) :
    Finished(j) => \A f \in files : f.owner # j

\* C10: no worker returns, transcribes, reads or deletes a file that was
\* written by a different Job.
C10_NoForeignFileUse == foreign = {}

\* C11: pool threads never write to state they share; here, to the fields
\* of the provider instance that the Downloader hands to every one of them.
C11_NoSharedWrites == shared_writes = {}

IsPrefix(a, b) == Len(a) <= Len(b) /\ \A i \in 1..Len(a) : a[i] = b[i]

\* the cookie sources of a call that meets bot detection at every attempt;
\* the zen entry is read from the firefox store when no Zen profile exists
FixedOrder ==
  [i \in 1..(Len(CookieBrowsers) + 1) |->
     IF i > Len(CookieBrowsers) THEN NoCookies
     ELSE IF CookieBrowsers[i] = "zen" /\ ~ provider.zen_profile
     THEN "firefox" ELSE CookieBrowsers[i]]

\* C12: in every provider call, whatever calls were made before on the same
\* instance, the attempts use the cookie sources zen, firefox, chrome, safari,
\* edge in that order, each at most once and none skipped, then no cookies; a
\* call that fails on bot detection has made the attempt without cookies.
C12_FixedOrderEveryCall ==
  \A t \in DOMAIN threads :
    /\ IsPrefix(threads[t].tried, FixedOrder)
    /\ threads[t].pc = "raised_bot" => threads[t].tried = FixedOrder

\* the children of an aggregate all have a provider and are videos
AllChildrenVideos(url) ==
  /\ Entries(url) # << >>
  /\ \A i \in 1..Len(Entries(url)) :
       /\ Entries(url)[i] # ""
       /\ get_provider(Entries(url)[i]) # "none"
       /\ get_content_type(Entries(url)[i]) = "video"

\* C13: for an aggregate whose N children all have a provider and are
\* videos, _expand_url called with context c yields exactly N Jobs, one per
\* child in child order, each with the context c + [sanitized title].
C13_OneJobPerChild ==
  (/\ call.fn = "expand_url" /\ call.st = "returned"
   /\ get_provider(call.url) # "none"
   /\ get_content_type(call.url) \in {"channel", "playlist", "profile"}
   /\ ~ MetadataFails(call.url)
   /\ AllChildrenVideos(call.url))
  => ret = [i \in 1..Len(Entries(call.url)) |->
              [url |-> Entries(call.url)[i],
               context |-> Append(call.context,
                             sanitize_folder_name(Title(call.url),
                                                  DefaultMaxLength))]]

\* the profile with three video children, expanded below a folder
C13_Witness ==
  /\ call.fn = "expand_url" /\ call.st = "returned"
  /\ call.url = "prof" /\ call.context # << >>
  /\ Len(ret) = 3
  /\ ret[1].url = "v2" /\ ret[3].url = "v1"
  /\ ret[1].context = Append(call.context, <<"b", "w">>)

\* C14: progress_callback is called once per Job and only after that Job
\* has completed; the k-th call carries the count k and the number of
\* expanded Jobs of the whole run.
C14_ProgressAfterEachJob ==
  /\ \A k \in 1..Len(progress_calls) :
       /\ progress_calls[k].job_done
       /\ progress_calls[k].completed = k
       /\ progress_calls[k].total = Len(expanded_data)
  /\ b_pc = "done" => Len(progress_calls) = Len(expanded_data)


\* C15: a failure to fetch the metadata of a video does not make the Job
\* failed: no finished Job whose metadata fetch raised is without a result.
C15_MetadataFailureNotFatal ==
  \A j \in 1..Len(jobs) :
    (Finished(j) /\ jobs[j].err = "metadata") => jobs[j].result # NoPath

\* C16: the outcome of a Job is counted only for the original URL the Job was
\* expanded from: when the same video was expanded from two original URLs and
\* the Job of one failed while the Job of the other succeeded, the original
\* URL of the failed Job is still in the bulk file after the run (every
\* playlist listing of the update having succeeded).
C16_OutcomeCountedForOwnOrigin ==
  (/\ b_pc = "done"
   /\ save_calls > 0
   /\ remaining_original_urls =
        IF b_method = "sequential"
        THEN RemainingWithContext(b_urls, successful_urls, {})
        ELSE RemainingThreaded(b_urls, successful_urls, {})) =>
    \A j, k \in 1..Len(expanded_data) :
      (/\ expanded_data[j].video_url = expanded_data[k].video_url
       /\ expanded_data[j].origin # expanded_data[k].origin
       /\ ~ JobOk(j)
       /\ JobOk(k)) =>
        InSeq(expanded_data[j].origin, load_urls_from_file(bulk_file))

\* C17: no video is worked on twice: of the Jobs of one run, no two that
\* have the same video URL have both been started by a worker.
C17_NoDuplicateWork ==
  \A j, k \in 1..Len(jobs) :
    (j # k /\ jobs[j].url = jobs[k].url) =>
      ~ (jobs[j].runs >= 1 /\ jobs[k].runs >= 1)

\* C18: a bulk method raises ValueError exactly when the bulk file is
\* missing or yields no URLs, and it raises before any work: nothing has been
\* expanded, no directory created, no Job started, no progress reported and
\* the bulk file is as it was.
C18_RaisesBeforeAnyWork ==
  /\ b_pc \notin {"off", "load"} =>
       (b_pc = "error" <=>
          (~ file_exists \/ load_urls_from_file(file0) = << >>))
  /\ b_pc = "error" =>
       /\ expanded_data = << >>
       /\ b_jobs = << >>
       /\ dirs_created = 0
       /\ successful_urls = << >>
       /\ failed_urls = << >>
       /\ progress_calls = << >>
       /\ save_calls = 0
       /\ bulk_file = file0

\* the method has raised for a bulk file that exists and holds only blank
\* and comment lines
C18_Witness ==
  /\ b_pc = "error"
  /\ file_exists
  /\ Len(file0) = 2
  /\ \E i \in 1..2 : file0[i] = <<"#", "n">>

\* cli.run, lines 126-130: the counts of the end-of-run log lines
run_summary ==
  [succeeded |-> Cardinality(DOMAIN results),
   failed |-> Len(urls) - Cardinality(DOMAIN results)]

\* BulkProcessor.print_summary, lines 405-411
print_summary ==
  [succeeded |-> Len(successful_urls),
   failed |-> Len(failed_urls),
   total |-> Len(successful_urls) + Len(failed_urls)]

\* C19: at the end of a run the summary reports as succeeded the number of
\* Jobs that produced a transcript, as failed the number of failed Jobs, and
\* the two add up to the number of expanded Jobs; for the run command (here
\* with every input URL a video of a supported platform, so that Jobs and
\* input URLs correspond one to one) and for BulkProcessor.print_summary.
C19_SummaryCountsJobs ==
  /\ (/\ pc = "done"
      /\ \A i \in 1..Len(urls) :
           get_provider(urls[i]) # "none"
           /\ get_content_type(urls[i]) = "video") =>
       /\ run_summary.succeeded =
            Cardinality({j \in 1..Len(jobs) :
                           jobs[j].st = "returned" /\ jobs[j].result # NoPath})
       /\ run_summary.failed =
            Cardinality({j \in 1..Len(jobs) :
                           jobs[j].st = "raised" \/ jobs[j].result = NoPath})
       /\ run_summary.succeeded + run_summary.failed = Len(tasks)
  /\ b_pc = "done" =>
       /\ print_summary.succeeded =
            Cardinality({j \in 1..Len(b_jobs) : JobOk(j)})
       /\ print_summary.failed =
            Cardinality({j \in 1..Len(b_jobs) : ~ JobOk(j)})
       /\ print_summary.total = Len(expanded_data)

\* a blank line holds nothing but whitespace
IsBlank(line) == \A i \in 1..Len(line) : line[i] \in {" ", "\t", "\n"}

\* a comment line starts with '#'
IsComment(line) == Len(line) > 0 /\ line[1] = "#"

\* the positions of the lines that are neither blank nor comments
UrlLinePositions(lines) ==
  {i \in 1..Len(lines) : ~ IsBlank(lines[i]) /\ ~ IsComment(lines[i])}

\* C20: load_urls_from_file returns, in file order, exactly the lines that
\* are not blank and do not start with '#', each without its surrounding
\* whitespace: the k-th element returned is the k-th such line, from its
\* first to its last non-whitespace character.
C20_LoadsUrlLinesInOrder ==
  (call.fn = "load_urls_from_file" /\ call.st = "returned" /\ call.exists) =>
    LET pos == UrlLinePositions(call.lines)
    IN  /\ Len(ret) = Cardinality(pos)
        /\ \A i \in pos :
             LET k == Cardinality({m \in pos : m <= i})
                 line == call.lines[i]
                 first == CHOOSE a \in 1..Len(line) :
                            /\ ~ IsBlank(<<line[a]>>)
                            /\ \A b \in 1..(a - 1) : IsBlank(<<line[b]>>)
                 last == CHOOSE a \in 1..Len(line) :
                           /\ ~ IsBlank(<<line[a]>>)
                           /\ \A b \in (a + 1)..Len(line) :
                                IsBlank(<<line[b]>>)
             IN  ret[k] = SubSeq(line, first, last)

\* the file of a blank line, the comment line '# note' and one URL has been
\* loaded and the list returned holds exactly that URL
C20_Witness ==
  /\ call.fn = "load_urls_from_file"
  /\ call.st = "returned"
  /\ call.exists
  /\ call.lines = << <<"\n">>, <<"#", " ", "n", "\n">>, <<"v1", "\n">> >>
  /\ ret = << <<"v1">> >>

\* C21: a list of URLs saved with save_urls_to_file and loaded back with
\* load_urls_from_file comes back equal: same length, same order, duplicates
\* kept.
C21_RoundTrip ==
  (/\ call.fn = "save_urls_to_file"
   /\ call.st = "returned"
   /\ \A i \in 1..Len(call.urls) : IsUrl(call.urls[i])) =>
    ret = call.urls

\* a list of three URLs with a duplicate and a URL holding '#' has been
\* saved and loaded back
C21_Witness ==
  /\ call.fn = "save_urls_to_file"
  /\ call.st = "returned"
  /\ call.urls = << <<"v1">>, <<"v1", "#", "n">>, <<"v1">> >>
  /\ ret = call.urls

\* C22: sanitize_folder_name is idempotent: sanitising the name it returned,
\* with the same max_length, returns that name again.
C22_SanitizeIdempotent ==
  (call.fn = "sanitize_folder_name" /\ call.st = "returned") =>
    sanitize_folder_name(ret, call.max_length) = ret

\* file_utils.create_timestamped_directory: base_name and a timestamp
create_timestamped_directory(base_name) ==
  [kind |-> "timestamped", name |-> base_name]

\* file_utils.create_playlist_directory, lines 120-131: the sanitised title,
\* or the fallback name and a timestamp when fewer than 3 characters are left
create_playlist_directory(playlist_title, fallback_name) ==
  LET folder_name == sanitize_folder_name(playlist_title, DefaultMaxLength)
  IN  IF Len(Strip(folder_name)) < 3
      THEN [kind |-> "timestamped", name |-> fallback_name]
      ELSE [kind |-> "titled", name |-> folder_name]

\* the directory the transcript of bulk Job j is written into: group_dir of
\* the Job's group in the sequential method (lines 198-212 and 231), the one
\* session_dir in the threaded methods (lines 517-520 and 432)
BulkJobDir(j) ==
  IF b_method = "sequential"
  THEN IF expanded_data[j].playlist_title # << >>
       THEN create_playlist_directory(
              expanded_data[j].playlist_title,
              <<"playlist", expanded_data[j].playlist_id>>)
       ELSE create_timestamped_directory(<<"bulk_transcription">>)
  ELSE create_timestamped_directory(<<"bulk_transcription">>)

\* C23: every Job is written into the directory of its source: a Job of
\* process_urls into the directory of its folder context, or 'unsorted' when
\* the context is empty; a bulk Job expanded from a playlist or channel into
\* a directory named after that aggregate (its sanitised title, or its id
\* when the title is too short), a bulk Job of a single-video line into the
\* timestamped session directory.
C23_OutputLayout ==
  /\ \A o \in outputs :
       o.path.dir = IF jobs[o.owner].context # << >>
                    THEN jobs[o.owner].context ELSE << UnsortedName >>
  /\ \A j \in 1..Len(b_jobs) :
       JobOk(j) =>
         IF expanded_data[j].origin # expanded_data[j].video_url
         THEN \/ BulkJobDir(j) =
                   [kind |-> "titled",
                    name |-> sanitize_folder_name(
                               Title(expanded_data[j].playlist_id),
                               DefaultMaxLength)]
              \/ BulkJobDir(j) =
                   [kind |-> "timestamped",
                    name |-> <<"playlist", expanded_data[j].playlist_id>>]
         ELSE BulkJobDir(j) =
                [kind |-> "timestamped", name |-> <<"bulk_transcription">>]

\* the order of the worker's steps
StepOrder ==
  <<"provider", "metadata", "download", "transcribe", "enhance", "write",
    "delete", "return">>

StepPos(step) == CHOOSE i \in 1..Len(StepOrder) : StepOrder[i] = step

\* the download step of the Job returned an audio file
ReturnedAudio(job) ==
  job.downloaded_file # NoPath /\ job.downloaded_file.ext = "wav"

DefaultCap(url) ==
  IF get_content_type(url) = "channel" THEN YouTubeChannelCap
  ELSE TikTokProfileCap

\* C25: expanding a channel or profile URL yields at most the default cap
\* of video Jobs, however many entries the platform lists.
C25_ExpansionCapped ==
  (/\ call.fn = "expand_url"
   /\ call.st = "returned"
   /\ get_content_type(call.url) \in {"channel", "profile"}) =>
    Len(ret) <= DefaultCap(call.url)

RECURSIVE Concat(_)
Concat(seqs) ==
  IF seqs = << >> THEN << >> ELSE Head(seqs) \o Concat(Tail(seqs))

RECURSIVE Leaves(_)
\* the videos below a URL, in listing order: a video is its own leaf; a
\* playlist, channel or profile whose metadata can be fetched has the leaves
\* of its entries; anything else (no provider, unknown content type, an
\* entry without URL, an aggregate whose metadata fetch fails) has none
Leaves(u) ==
  IF u \in Videos THEN << u >>
  ELSE IF u \in Aggregates /\ u # "badpl"
  THEN Concat([i \in 1..Len(Entries(u)) |-> Leaves(Entries(u)[i])])
  ELSE << >>

\* C26: expansion skips what it cannot expand and goes on: a URL without
\* provider, a URL of unknown content type, an aggregate without children,
\* an aggregate whose metadata fetch fails and a child entry without URL
\* contribute no Job, and every other child and every other input URL is
\* still expanded, so that the task list holds exactly the videos below the
\* input URLs, in order.
C26_ExpansionSkipsAndGoesOn ==
  pc \notin {"off", "expand"} =>
    [i \in 1..Len(tasks) |-> tasks[i].url] =
      Concat([i \in 1..Len(urls) |-> Leaves(urls[i])])

\* the run was given a URL without provider and then a channel that holds a
\* playlist with an entry without URL, an entry of unknown type and an entry
\* without provider, an empty playlist and a playlist whose metadata fetch
\* fails; the three videos below the channel are the tasks
C26_Witness ==
  /\ pc = "collect"
  /\ urls = <<"nop", "chan">>
  /\ [i \in 1..Len(tasks) |-> tasks[i].url] = <<"v1", "v2", "v2">>

\* C27: over the URL graph of the platform, in which no aggregate is
\* reachable from itself, the expansion of every input list ends, and it
\* ends with the task list of process_urls: one Job for every path from an
\* input URL to a video.
C27_ExpansionTerminates ==
  /\ <>(call.st = "expanded")
  /\ [](call.st = "expanded" =>
         /\ ret = ExpandAll(call.urls)
         /\ Len(ret) =
              Len(Concat([i \in 1..Len(call.urls) |->
                            Leaves(call.urls[i])])))

\* the expansion of a channel followed by a profile has ended: the channel
\* gave three Jobs, two of them below its playlist, the profile three
C27_Witness ==
  /\ call.fn = "process_urls"
  /\ call.st = "expanded"
  /\ call.urls = <<"chan", "prof">>
  /\ Len(ret) = 6
  /\ Len(ret[1].context) = 2

\* the number of occurrences of x in seq
Count(x, seq) == Cardinality({i \in 1..Len(seq) : seq[i] = x})

\* C28: when a bulk method returns, successful_urls and failed_urls
\* partition the expanded Jobs: every video URL occurs in the two lists
\* together as often as in the expanded list, in successful_urls as often as
\* a Job for it succeeded, and no other URL occurs in either list.
C28_ListsPartitionJobs ==
  b_pc = "done" =>
    /\ \A u \in Range(successful_urls) \cup Range(failed_urls) :
         \E j \in 1..Len(expanded_data) : expanded_data[j].video_url = u
    /\ \A j \in 1..Len(expanded_data) :
         LET u == expanded_data[j].video_url
             mine == {k \in 1..Len(expanded_data) :
                        expanded_data[k].video_url = u}
         IN  /\ Count(u, successful_urls) =
                  Cardinality({k \in mine : JobOk(k)})
             /\ Count(u, failed_urls) =
                  Cardinality({k \in mine : ~ JobOk(k)})
    /\ Len(successful_urls) + Len(failed_urls) = Len(expanded_data)

\* a threaded run has returned in which the same video was expanded twice,
\* one of its Jobs succeeded and the other failed
C28_Witness ==
  /\ b_pc = "done"
  /\ b_method = "threaded"
  /\ \E j, k \in 1..Len(expanded_data) :
       /\ j # k
       /\ expanded_data[j].video_url = expanded_data[k].video_url
       /\ JobOk(j)
       /\ ~ JobOk(k)

\* C29: every call of get_metadata or download_audio makes at most
\* len(cookie_browsers) + 1 = 6 extraction attempts and has returned or
\* raised after the sixth, and the cookie-source index of the provider
\* never decreases.
C29_BoundedAttemptsMonotoneIndex ==
  /\ [](\A t \in DOMAIN threads :
          /\ Len(threads[t].tried) <= max_retries
          /\ Len(threads[t].tried) = max_retries =>
               threads[t].pc \in {"returned", "raised_bot", "raised_error"})
  /\ [][provider'.idx >= provider.idx]_vars

RECURSIVE Product(_)
Product(filters) ==
  IF filters = << >> THEN 1
  ELSE Head(filters).value * Product(Tail(filters))

\* C30: for every positive multiplier with pitch preservation the call ends,
\* and the chain it built holds only atempo filters, each with a factor in
\* [0.5, 2.0], whose product is the requested multiplier
C30_AtempoChain ==
  /\ <>(call.st = "done")
  /\ [](call.st = "done" /\ call.preserve_pitch =>
          /\ \A i \in 1..Len(ret) :
               /\ ret[i].name = "atempo"
               /\ ret[i].value >= 500
               /\ ret[i].value <= 2000
          /\ 4 * Product(ret) =
               call.speed * Product([i \in 1..Len(ret) |-> [value |-> 1000]]))


====
